---- MODULE Spec2Model ----
(***************************************************************************)
(* Model of the blinks ActionContainer (src/src/ui/ActionLayout.tsx): the  *)
(* trust gate (checkSecurityFromActionState, overallState), the execution  *)
(* reducer and the asynchronous execute() protocol connect -> post ->      *)
(* signTransaction -> confirmTransaction, running against a trust registry *)
(* that may be refreshed between any two steps.                            *)
(***************************************************************************)
EXTENDS Integers, Sequences, FiniteSets, TLC

----------------------------------------------------------------------------
(* Bounds of the model *)

\* number of execute() calls followed per container
MaxExecutes == 2

\* how many times the refresh timer is followed
MaxRefreshes == 2

\* how many discovered nodes are followed
MaxNodes == 1

----------------------------------------------------------------------------
(* Values *)

\* JavaScript's undefined and null
Undefined == "undefined"
Null == "null"

\* ExtendedActionState: the three trust levels
Levels == {"trusted", "unknown", "malicious"}

\* SecurityLevel: the closed set of policies
SecurityLevels == {"only-trusted", "non-malicious", "all"}

\* type Source
Sources == {"websites", "interstitials", "actions"}

\* NormalizedSecurityLevel = Record<Source, SecurityLevel>
NormalizedSecurityLevels == [Sources -> SecurityLevels]

\* action.actions, the components of the rendered action, in order: "c1" has
\* no parameter (a button), "c2" has one parameter (an input)
ActionComponents == <<"c1", "c2">>
Components == {ActionComponents[i] : i \in DOMAIN ActionComponents}
HasParameter(it) == it = "c2"

\* the values a user can type into an input (never the empty string: the
\* input's button is disabled while the value is '')
ParamValues == {"v"}

\* messages a thrown Error can carry, messages component.post returns with
\* the transaction, and what adapter.confirmTransaction resolves to
ErrorMessages == {"insufficient funds"}
TxMessages == {"Swap complete", Null}
ConfirmResults == {Undefined, "Confirmed"}

\* a thrown value: null/undefined itself, a value without a message
\* property, or a value with a message
ThrownValues ==
    {[nullish |-> TRUE, message |-> Undefined],
     [nullish |-> FALSE, message |-> Undefined]}
    \cup {[nullish |-> FALSE, message |-> m] : m \in ErrorMessages}

\* what adapter.connect resolves to
Accounts == {"account", Null}

\* what adapter.signTransaction resolves to: a falsy value, an object with
\* an error, or an object with a signature
SignResults == {"falsy", "signError", "signature"}

\* where the container's websiteUrl prop points: absent, a website, or an
\* interstitial
OriginKinds == {"none", "websites", "interstitials"}

----------------------------------------------------------------------------
(* State *)

VARIABLES
    registry,        \* the registry snapshot: the levels of the action and of websiteUrl
    securityLevel,   \* the normalized securityLevel prop
    originKind,      \* what the websiteUrl prop is
    disabled,        \* action.disabled, a property of the fetched action
    mounted,         \* the ActionContainer has been created
    values,          \* the parameter value held by each component
    actionState,     \* useState(getOverallActionState(...))
    executionState,  \* useReducer(executionReducer, ...)
    runs,            \* the execute() calls in flight and those ended since the last click
    executes,        \* how many times execute() has been called
    applied,         \* the last application of executionReducer: <<>> or <<[state, action]>>
    loop,            \* the refreshRegistry loop of setupTwitterObserver
    observers,       \* how many MutationObservers have been installed
    nodes            \* the handleNewNode calls, one per discovered node

\* the state of one ActionContainer
container == <<registry, securityLevel, originKind, disabled, mounted, values,
               actionState, executionState, runs, executes>>

\* the state of the page script around it
page == <<loop, observers, nodes>>

vars == <<registry, securityLevel, originKind, disabled, mounted, values,
          actionState, executionState, runs, executes, applied, loop,
          observers, nodes>>

----------------------------------------------------------------------------
(* Collaborators outside src/: ../shared and ../api *)

\* checkSecurity(state, securityLevel)
checkSecurity(state, level) ==
    CASE level = "only-trusted" -> state = "trusted"
      [] level = "non-malicious" -> state # "malicious"
      [] level = "all" -> TRUE

\* rank in the order malicious > unknown > trusted
Restrictiveness(l) ==
    CASE l = "trusted" -> 0
      [] l = "unknown" -> 1
      [] l = "malicious" -> 2

\* merge(a, b): the more restrictive of the two
MoreRestrictive(a, b) == IF Restrictiveness(b) > Restrictiveness(a) THEN b ELSE a

\* mergeActionStates(...states): the most restrictive of the states given,
\* taken from the first to the last
RECURSIVE mergeActionStates(_)
mergeActionStates(states) ==
    IF Len(states) = 1
    THEN states[1]
    ELSE MoreRestrictive(states[1], mergeActionStates(Tail(states)))

\* Boolean(x), as .filter(Boolean) applies it
Boolean(x) == x \notin {Undefined, Null}

\* isSignTransactionError(signResult)
isSignTransactionError(signResult) == signResult = "signError"

----------------------------------------------------------------------------
(* The trust gate *)

\* getOverallActionState(action, websiteUrl), reading the registry snapshot reg
getOverallActionState(reg, kind) ==
    IF kind = "none"
    THEN [action |-> reg.action, origin |-> Undefined, originType |-> Undefined]
    ELSE IF kind = "interstitials"
    THEN [action |-> reg.action, origin |-> reg.origin, originType |-> "interstitials"]
    ELSE [action |-> reg.action, origin |-> reg.origin, originType |-> "websites"]

\* checkSecurityFromActionState(state, normalizedSecurityLevel):
\*   return checkSecurity(state.action, nsl.actions) && state.origin ? checkSecurity(...) : true
\* the conditional operator binds weaker than &&
checkSecurityFromActionState(state, nsl) ==
    IF checkSecurity(state.action, nsl["actions"]) /\ state.origin # Undefined
    THEN checkSecurity(state.origin, nsl[state.originType])
    ELSE TRUE

\* the overall state, were it the state of the action alone
overallState_OfActionAlone == actionState.action

\* overallState = mergeActionStates(...[action, origin].filter(Boolean)), of
\* a created container
overallState ==
    mergeActionStates(SelectSeq(<<actionState.action, actionState.origin>>, Boolean))

\* isPassingSecurityCheck of the current render
isPassingSecurityCheck == checkSecurityFromActionState(actionState, securityLevel)

----------------------------------------------------------------------------
(* The execution reducer *)

Statuses == {"blocked", "idle", "executing", "success", "error"}

\* an ExecutionState literal that gives only its status
StatusOnly(s) ==
    [status |-> s, executingAction |-> Undefined,
     errorMessage |-> Undefined, successMessage |-> Undefined]

\* executionReducer with INITIATE written as the other cases are, spreading
\* the state and setting the status only
executionReducer_InitiateSpreads(state, action) ==
    CASE action.type = "INITIATE" -> [state EXCEPT !.status = "executing"]
      [] action.type = "FINISH" ->
            [state EXCEPT !.status = "success",
                          !.successMessage = action.successMessage,
                          !.errorMessage = Null]
      [] action.type = "FAIL" ->
            [state EXCEPT !.status = "error",
                          !.errorMessage = action.errorMessage,
                          !.successMessage = Null]
      [] action.type = "RESET" -> StatusOnly("idle")
      [] action.type = "BLOCK" -> StatusOnly("blocked")
      [] action.type = "UNBLOCK" -> StatusOnly("idle")

\* executionReducer with RESET spreading the state
executionReducer_ResetSpreads(state, action) ==
    CASE action.type = "INITIATE" ->
            [StatusOnly("executing") EXCEPT !.executingAction = action.executingAction]
      [] action.type = "FINISH" ->
            [state EXCEPT !.status = "success",
                          !.successMessage = action.successMessage,
                          !.errorMessage = Null]
      [] action.type = "FAIL" ->
            [state EXCEPT !.status = "error",
                          !.errorMessage = action.errorMessage,
                          !.successMessage = Null]
      [] action.type = "RESET" -> [state EXCEPT !.status = "idle"]
      [] action.type = "BLOCK" -> StatusOnly("blocked")
      [] action.type = "UNBLOCK" -> StatusOnly("idle")

executionReducer(state, action) ==
    CASE action.type = "INITIATE" ->
            [StatusOnly("executing") EXCEPT !.executingAction = action.executingAction]
      [] action.type = "FINISH" ->
            [state EXCEPT !.status = "success",
                          !.successMessage = action.successMessage,
                          !.errorMessage = Null]
      [] action.type = "FAIL" ->
            [state EXCEPT !.status = "error",
                          !.errorMessage = action.errorMessage,
                          !.successMessage = Null]
      [] action.type = "RESET" -> StatusOnly("idle")
      [] action.type = "BLOCK" -> StatusOnly("blocked")
      [] action.type = "UNBLOCK" -> StatusOnly("idle")

\* the initial state given to useReducer
InitialExecutionState(overall, passing) ==
    StatusOnly(IF overall # "malicious" /\ passing THEN "idle" ELSE "blocked")

----------------------------------------------------------------------------
(* Rendering *)

SOFT_LIMIT_BUTTONS == 10
SOFT_LIMIT_INPUTS == 3

\* Array.prototype.toSpliced(start): the first `start` elements
toSpliced(seq, start) ==
    IF Len(seq) <= start THEN seq ELSE SubSeq(seq, 1, start)

\* .filter((it) => executionState.executingAction ? executionState.executingAction === it : true)
IsShown(it) ==
    IF executionState.executingAction # Undefined
    THEN executionState.executingAction = it
    ELSE TRUE

IsButton(it) == ~HasParameter(it) /\ IsShown(it)
IsInput(it) == HasParameter(it) /\ IsShown(it)

buttons == toSpliced(SelectSeq(ActionComponents, IsButton), SOFT_LIMIT_BUTTONS)
inputs == toSpliced(SelectSeq(ActionComponents, IsInput), SOFT_LIMIT_INPUTS)

Range(seq) == {seq[i] : i \in DOMAIN seq}

\* the components that are on screen, as a button or as an input
Rendered == Range(buttons) \cup Range(inputs)

buttonVariantMap(status) ==
    CASE status = "blocked" -> "default"
      [] status = "idle" -> "default"
      [] status = "executing" -> "default"
      [] status = "success" -> "success"
      [] status = "error" -> "error"

buttonLabelMap(status) ==
    CASE status = "blocked" -> Null
      [] status = "idle" -> Null
      [] status = "executing" -> "Executing"
      [] status = "success" -> "Completed"
      [] status = "error" -> "Failed"

\* it.label
Label(it) == it

\* asButtonProps with disabled taken from action.disabled alone
asButtonProps_DisabledByActionOnly(it) ==
    [text |-> IF buttonLabelMap(executionState.status) # Null
              THEN buttonLabelMap(executionState.status)
              ELSE Label(it),
     loading |-> executionState.status = "executing"
                 /\ it = executionState.executingAction,
     disabled |-> disabled,
     variant |-> buttonVariantMap(executionState.status)]

asButtonProps(it) ==
    [text |-> IF buttonLabelMap(executionState.status) # Null
              THEN buttonLabelMap(executionState.status)
              ELSE Label(it),
     loading |-> executionState.status = "executing"
                 /\ it = executionState.executingAction,
     disabled |-> disabled \/ executionState.status # "idle",
     variant |-> buttonVariantMap(executionState.status)]

\* an input that stayed enabled whatever the status
asInputProps_NeverDisabled(it) ==
    [disabled |-> FALSE,
     button |-> asButtonProps(it)]

asInputProps(it) ==
    [disabled |-> disabled \/ executionState.status # "idle",
     button |-> asButtonProps(it)]

\* the "Ignore warning & proceed" button of the disclaimer is on screen
OverrideOffered ==
    /\ mounted
    /\ overallState = "malicious"
    /\ executionState.status = "blocked"
    /\ isPassingSecurityCheck

----------------------------------------------------------------------------
(* Initial state: the action is fetched, its container is yet to be created *)

\* the hooks' state before the first render
NoActionState == [action |-> Undefined, origin |-> Undefined, originType |-> Undefined]
NoExecutionState == StatusOnly(Undefined)

\* no setupTwitterObserver call is followed
NoLoop == [pc |-> "off", caller |-> Undefined, outcome |-> Undefined,
           inits |-> 0, refreshes |-> 0, then |-> "none", rejected |-> FALSE]

Init ==
    /\ registry \in [action : Levels, origin : Levels]
    /\ securityLevel \in NormalizedSecurityLevels
    /\ originKind \in OriginKinds
    /\ disabled \in BOOLEAN
    /\ mounted = FALSE
    /\ values = [c \in Components |-> Undefined]
    /\ actionState = NoActionState
    /\ executionState = NoExecutionState
    /\ runs = <<>>
    /\ executes = 0
    /\ applied = <<>>
    /\ loop = NoLoop
    /\ observers = 0
    /\ nodes = <<>>

----------------------------------------------------------------------------
(* ActionContainer: the first render *)

ActionContainer ==
    LET initialActionState == getOverallActionState(registry, originKind)
        initialOverallState ==
            mergeActionStates(
                SelectSeq(<<initialActionState.action, initialActionState.origin>>,
                          Boolean))
        initialIsPassingSecurityCheck ==
            checkSecurityFromActionState(initialActionState, securityLevel)
    IN
    /\ ~mounted
    /\ mounted' = TRUE
    /\ actionState' = initialActionState
    /\ executionState' =
          InitialExecutionState(initialOverallState, initialIsPassingSecurityCheck)
    /\ UNCHANGED <<registry, securityLevel, originKind, disabled, values, runs, executes>>

----------------------------------------------------------------------------
(* execute(component, params) *)

\* one call of execute(): the component it was called for, where it stands
\* (awaiting "connect", "post", "sign" or "confirm"; "returned"; or
\* "rejected" when an exception left the function), the adapter and
\* component methods it has called, the events it has dispatched, and what
\* the awaited steps gave back
NewRun(it) ==
    [component |-> it, pc |-> "returned", calls |-> <<>>, dispatched |-> <<>>,
     account |-> Undefined, txMessage |-> Undefined, signResult |-> Undefined,
     confirmResult |-> Undefined, thrown |-> <<>>]

\* the calls that have not come to their end
IsInFlight(run) == run.pc \notin {"returned", "rejected"}
InFlight == {i \in DOMAIN runs : IsInFlight(runs[i])}

\* a new call of execute() joins the calls in flight; the calls that have
\* ended are forgotten
Started(run) == Append(SelectSeq(runs, IsInFlight), run)

\* a click that reached execute() whatever the status
CanClick_InAnyStatus(it) ==
    /\ mounted
    /\ it \in Rendered
    /\ ~disabled

\* a click on the button of component `it`: of a button with no params, of
\* an input with the value typed into it
CanClick(it) ==
    /\ mounted
    /\ it \in Rendered
    /\ ~asButtonProps(it).disabled
    /\ HasParameter(it) => ~asInputProps(it).disabled

\* the classification execute() goes by, were it the one of the last render
newActionState_OfLastRender == actionState

\* const newActionState = getOverallActionState(action, websiteUrl)
newActionState == getOverallActionState(registry, originKind)

\* the synchronous part of execute(), up to its first await
execute(it, params) ==
    LET newIsPassingSecurityCheck ==
            checkSecurityFromActionState(newActionState, securityLevel)
    IN
    /\ values' = IF HasParameter(it) /\ params # Undefined
                 THEN [values EXCEPT ![it] = params]
                 ELSE values
    /\ IF /\ (newActionState.action # actionState.action
                \/ newActionState.origin # actionState.origin)
          /\ ~newIsPassingSecurityCheck
       THEN /\ actionState' = newActionState
            /\ executionState' = executionReducer(executionState, [type |-> "BLOCK"])
            /\ runs' = Started([NewRun(it) EXCEPT !.dispatched = <<"BLOCK">>])
       ELSE /\ executionState' =
                  executionReducer(executionState,
                                   [type |-> "INITIATE", executingAction |-> it])
            /\ runs' = Started([NewRun(it) EXCEPT !.dispatched = <<"INITIATE">>,
                                                    !.calls = <<"connect">>,
                                                    !.pc = "connect"])
            /\ UNCHANGED actionState
    /\ executes' = executes + 1
    /\ UNCHANGED <<registry, securityLevel, originKind, disabled, mounted>>

Execute ==
    \E it \in Components :
        /\ executes < MaxExecutes
        /\ CanClick(it)
        /\ \E params \in (IF HasParameter(it) THEN ParamValues ELSE {Undefined}) :
              execute(it, params)

\* run i dispatches `action` and returns
DispatchAndReturn(i, action, run) ==
    /\ executionState' = executionReducer(executionState, action)
    /\ runs' = [runs EXCEPT ![i] = [run EXCEPT !.pc = "returned",
                                                !.dispatched = Append(@, action.type)]]

\* the catch clause of execute():
\*   dispatch({ type: FAIL, errorMessage: (e as Error).message ?? 'Unknown error' })
\* reading .message of null or undefined throws inside the handler
Catch(i, e) ==
    LET run == [runs[i] EXCEPT !.thrown = <<e>>] IN
    IF e.nullish
    THEN /\ runs' = [runs EXCEPT ![i] = [run EXCEPT !.pc = "rejected"]]
         /\ UNCHANGED executionState
    ELSE DispatchAndReturn(i,
            [type |-> "FAIL",
             errorMessage |-> IF e.message \notin {Undefined, Null}
                              THEN e.message ELSE "Unknown error"],
            run)

\* the awaited step of run i throws (or its promise rejects)
StepThrows(i) ==
    /\ \E e \in ThrownValues : Catch(i, e)
    /\ UNCHANGED <<registry, securityLevel, originKind, disabled, mounted, values,
                   actionState, executes>>

\* await action.adapter.connect(context) resolves
ConnectResolves(i) ==
    /\ runs[i].pc = "connect"
    /\ \E account \in Accounts :
          LET run == [runs[i] EXCEPT !.account = account] IN
          IF account = Null
          THEN DispatchAndReturn(i, [type |-> "RESET"], run)
          ELSE /\ runs' = [runs EXCEPT ![i] = [run EXCEPT !.pc = "post",
                                                           !.calls = Append(@, "post")]]
               /\ UNCHANGED executionState
    /\ UNCHANGED <<registry, securityLevel, originKind, disabled, mounted, values,
                   actionState, executes>>

\* await component.post(account) resolves
PostResolves(i) ==
    /\ runs[i].pc = "post"
    /\ \E message \in TxMessages :
          runs' = [runs EXCEPT ![i] = [@ EXCEPT !.txMessage = message,
                                                !.pc = "sign",
                                                !.calls = Append(@, "signTransaction")]]
    /\ UNCHANGED <<registry, securityLevel, originKind, disabled, mounted, values,
                   actionState, executionState, executes>>

\* signTransaction resolves, were its result not looked at before confirming
SignResolves_ConfirmsAnyResult(i) ==
    /\ runs[i].pc = "sign"
    /\ \E signResult \in SignResults :
          runs' = [runs EXCEPT ![i] =
                      [@ EXCEPT !.signResult = signResult,
                                !.pc = "confirm",
                                !.calls = Append(@, "confirmTransaction")]]
    /\ UNCHANGED <<registry, securityLevel, originKind, disabled, mounted, values,
                   actionState, executionState, executes>>

\* await action.adapter.signTransaction(tx.transaction, context) resolves
SignResolves(i) ==
    /\ runs[i].pc = "sign"
    /\ \E signResult \in SignResults :
          LET run == [runs[i] EXCEPT !.signResult = signResult] IN
          IF signResult = "falsy" \/ isSignTransactionError(signResult)
          THEN DispatchAndReturn(i, [type |-> "RESET"], run)
          ELSE /\ runs' = [runs EXCEPT ![i] =
                              [run EXCEPT !.pc = "confirm",
                                          !.calls = Append(@, "confirmTransaction")]]
               /\ UNCHANGED executionState
    /\ UNCHANGED <<registry, securityLevel, originKind, disabled, mounted, values,
                   actionState, executes>>

\* the success message, were it what confirmTransaction resolved to
successMessage_OfConfirm(run) == run.confirmResult

\* successMessage: tx.message
successMessage(run) == run.txMessage

\* await action.adapter.confirmTransaction(signResult.signature, context) resolves
ConfirmResolves(i) ==
    /\ runs[i].pc = "confirm"
    /\ \E result \in ConfirmResults :
          LET run == [runs[i] EXCEPT !.confirmResult = result] IN
          DispatchAndReturn(i,
              [type |-> "FINISH", successMessage |-> successMessage(run)], run)
    /\ UNCHANGED <<registry, securityLevel, originKind, disabled, mounted, values,
                   actionState, executes>>

----------------------------------------------------------------------------
(* The other events *)

\* onClick of "Ignore warning & proceed"
Unblock ==
    /\ OverrideOffered
    /\ executionState' = executionReducer(executionState, [type |-> "UNBLOCK"])
    /\ UNCHANGED <<registry, securityLevel, originKind, disabled, mounted, values,
                   actionState, runs, executes>>

\* a refresh of the registry, were the container to render again on it
RefreshRegistry_RendersAgain ==
    /\ registry' \in [action : Levels, origin : Levels] \ {registry}
    /\ actionState' = IF mounted
                      THEN getOverallActionState(registry', originKind)
                      ELSE actionState
    /\ UNCHANGED <<securityLevel, originKind, disabled, mounted, values,
                   executionState, runs, executes>>

\* the registry is refreshed: the snapshot is replaced
RefreshRegistry ==
    /\ registry' \in [action : Levels, origin : Levels] \ {registry}
    /\ UNCHANGED <<securityLevel, originKind, disabled, mounted, values, actionState,
                   executionState, runs, executes>>

Next ==
    \/ ActionContainer /\ UNCHANGED <<applied, page>>
    \/ Execute /\ UNCHANGED <<applied, page>>
    \/ \E i \in DOMAIN runs : ConnectResolves(i) /\ UNCHANGED <<applied, page>>
    \/ \E i \in DOMAIN runs : PostResolves(i) /\ UNCHANGED <<applied, page>>
    \/ \E i \in DOMAIN runs : SignResolves(i) /\ UNCHANGED <<applied, page>>
    \/ \E i \in DOMAIN runs : ConfirmResolves(i) /\ UNCHANGED <<applied, page>>
    \/ \E i \in InFlight : StepThrows(i) /\ UNCHANGED <<applied, page>>
    \/ Unblock /\ UNCHANGED <<applied, page>>
    \/ RefreshRegistry /\ UNCHANGED <<applied, page>>

Spec == Init /\ [][Next]_vars

----------------------------------------------------------------------------
(* executionReducer alone: every event applied to every ExecutionState *)

\* interface ExecutionState
ExecutionStates ==
    [status : Statuses,
     executingAction : Components \cup {Undefined, Null},
     errorMessage : ErrorMessages \cup {Undefined, Null},
     successMessage : TxMessages \cup {Undefined}]

\* type ActionValue
ActionValues ==
    [type : {"INITIATE"}, executingAction : Components]
        \cup [type : {"FINISH"}, successMessage : TxMessages \cup {Undefined}]
        \cup [type : {"FAIL"}, errorMessage : ErrorMessages]
        \cup [type : {"RESET", "BLOCK", "UNBLOCK"}]

InitReducer ==
    /\ executionState \in ExecutionStates
    /\ applied = <<>>
    /\ mounted = TRUE
    /\ registry = [action |-> "trusted", origin |-> "trusted"]
    /\ securityLevel = [s \in Sources |-> "all"]
    /\ originKind = "none"
    /\ disabled = FALSE
    /\ values = [c \in Components |-> Undefined]
    /\ actionState = getOverallActionState(registry, originKind)
    /\ runs = <<>>
    /\ executes = 0
    /\ loop = NoLoop
    /\ observers = 0
    /\ nodes = <<>>

\* dispatch(action)
Dispatch(action) ==
    /\ applied' = <<[state |-> executionState, action |-> action]>>
    /\ executionState' = executionReducer(executionState, action)
    /\ UNCHANGED <<registry, securityLevel, originKind, disabled, mounted, values,
                   actionState, runs, executes, page>>

NextReducer == \E action \in ActionValues : Dispatch(action)

SpecReducer == InitReducer /\ [][NextReducer]_vars

----------------------------------------------------------------------------
(* setupTwitterObserver: the refresh loop, the observer and handleNewNode *)

\* how ActionsRegistry.init() settles: with a new snapshot, or with the
\* failure swallowed and the previous snapshot kept
InitOutcomes == {"ok", "failed"}

\* the three kinds of added node: no link preview, a link to an
\* interstitial, a link to a website
NodeKinds == {"other", "interstitial", "website"}

\* the policy domain of a link's origin
OriginSource(kind) == IF kind = "interstitial" THEN "interstitials" ELSE "websites"

\* what mapUrl and decodedActionUrl give
ActionApiUrls == {Null, "api"}

\* the state after setupTwitterObserver(...) has returned: refreshRegistry()
\* is awaiting init(), its .then callback is pending
InitObserver ==
    /\ registry \in [action : Levels, origin : Levels]
    /\ securityLevel \in NormalizedSecurityLevels
    /\ loop = [NoLoop EXCEPT !.pc = "init", !.caller = "setup"]
    /\ observers = 0
    /\ nodes = <<>>
    /\ applied = <<>>
    /\ originKind = "none"
    /\ disabled = FALSE
    /\ mounted = FALSE
    /\ values = [c \in Components |-> Undefined]
    /\ actionState = NoActionState
    /\ executionState = NoExecutionState
    /\ runs = <<>>
    /\ executes = 0

\* what no step of the page script writes
Options == <<securityLevel, originKind, disabled, mounted, values, actionState,
             executionState, runs, executes, applied>>

\* ActionsRegistry.getInstance().init() settles
InitSettles ==
    /\ loop.pc = "init"
    /\ \E outcome \in InitOutcomes :
          /\ loop' = [loop EXCEPT !.pc = "resumed", !.outcome = outcome,
                                   !.inits = @ + 1]
          /\ IF outcome = "ok"
                THEN registry' \in [action : Levels, origin : Levels]
                ELSE registry' = registry
    /\ UNCHANGED <<observers, nodes, Options>>

\* refreshRegistry as a chain that goes on after a successful init() only
Reschedule_OnSuccessOnly ==
    /\ loop.pc = "resumed"
    /\ loop.outcome = "ok"
    /\ loop' = [loop EXCEPT !.pc = "scheduled",
                             !.then = IF loop.caller = "setup" THEN "queued" ELSE @]
    /\ UNCHANGED <<registry, observers, nodes, Options>>

\* refreshRegistry after its await: setTimeout(refreshRegistry, 10 minutes),
\* and the promise of the call resolves; a rejected init() would reject it
Reschedule ==
    /\ loop.pc = "resumed"
    /\ IF loop.outcome = "rejected"
          THEN loop' = [loop EXCEPT !.pc = "ended", !.rejected = TRUE]
          ELSE loop' = [loop EXCEPT !.pc = "scheduled",
                                    !.then = IF loop.caller = "setup"
                                               THEN "queued" ELSE @]
    /\ UNCHANGED <<registry, observers, nodes, Options>>

\* the .then callback: new MutationObserver(...), observer.observe(...)
InstallObserver ==
    /\ loop.then = "queued"
    /\ observers' = observers + 1
    /\ loop' = [loop EXCEPT !.then = "done"]
    /\ UNCHANGED <<registry, nodes, Options>>

\* a timer that set the page up again instead of refreshing
TimerFires_SetsUpAgain ==
    /\ loop.pc = "scheduled"
    /\ loop.then # "queued"
    /\ loop.refreshes < MaxRefreshes
    /\ loop' = [loop EXCEPT !.pc = "init", !.caller = "setup",
                             !.refreshes = @ + 1]
    /\ UNCHANGED <<registry, observers, nodes, Options>>

\* the 10 minutes have passed: refreshRegistry is called by the timer
TimerFires ==
    /\ loop.pc = "scheduled"
    /\ loop.then # "queued"
    /\ loop.refreshes < MaxRefreshes
    /\ loop' = [loop EXCEPT !.pc = "init", !.caller = "timer",
                             !.refreshes = @ + 1]
    /\ UNCHANGED <<registry, observers, nodes, Options>>

\* one handleNewNode call: where it is and what it has read so far
NewNode(kind) ==
    [kind |-> kind,
     pc |-> IF kind = "other" THEN "returned" ELSE "resolveUrl",
     originState |-> Undefined,     \* interstitialState or websiteState
     actionApiUrl |-> Undefined,
     state |-> Undefined,           \* getExtendedActionState(actionApiUrl)
     fetchCalled |-> FALSE,         \* Action.fetch has been called
     action |-> Undefined,
     rendered |-> FALSE]            \* replaceChildren(createAction(...))

\* the MutationObserver callback: handleNewNode(node, ...) up to its first
\* await; a node that is no link preview returns at once
handleNewNode ==
    /\ observers > 0
    /\ Len(nodes) < MaxNodes
    /\ \E kind \in NodeKinds : nodes' = Append(nodes, NewNode(kind))
    /\ UNCHANGED <<registry, loop, observers, Options>>

\* the check of the action endpoint that let every classification through
CheckAction_AnyState(node, actionApiUrl) ==
    IF actionApiUrl = Null
      THEN [node EXCEPT !.actionApiUrl = actionApiUrl, !.pc = "returned"]
      ELSE [node EXCEPT !.actionApiUrl = actionApiUrl,
                        !.state = registry.action,
                        !.pc = "fetch", !.fetchCalled = TRUE]

\* const state = actionApiUrl ? getExtendedActionState(actionApiUrl) : null
\* and the return of lines 162-168, else Action.fetch is called
CheckAction(node, actionApiUrl) ==
    IF actionApiUrl = Null
      THEN [node EXCEPT !.actionApiUrl = actionApiUrl, !.pc = "returned"]
      ELSE IF ~checkSecurity(registry.action, securityLevel["actions"])
        THEN [node EXCEPT !.actionApiUrl = actionApiUrl,
                          !.state = registry.action, !.pc = "returned"]
        ELSE [node EXCEPT !.actionApiUrl = actionApiUrl,
                          !.state = registry.action,
                          !.pc = "fetch", !.fetchCalled = TRUE]

\* await resolveTwitterShortenedUrl(shortenedUrl) resolves: the origin is
\* classified and checked; an interstitial goes on to the action check, a
\* website fetches its actions.json
ResolveUrlResolves(i) ==
    /\ nodes[i].pc = "resolveUrl"
    /\ LET originState == registry.origin
           seen == [nodes[i] EXCEPT !.originState = originState]
       IN  IF ~checkSecurity(originState, securityLevel[OriginSource(nodes[i].kind)])
             THEN nodes' = [nodes EXCEPT ![i] = [seen EXCEPT !.pc = "returned"]]
             ELSE IF nodes[i].kind = "interstitial"
               THEN \E decodedActionUrl \in ActionApiUrls :
                        nodes' = [nodes EXCEPT ![i] = CheckAction(seen, decodedActionUrl)]
               ELSE nodes' = [nodes EXCEPT ![i] = [seen EXCEPT !.pc = "actionsJson"]]
    /\ UNCHANGED <<registry, loop, observers, Options>>

\* await fetch(proxify(actionsJsonUrl)).then(res => res.json()) resolves
ActionsJsonResolves(i) ==
    /\ nodes[i].pc = "actionsJson"
    /\ \E mapped \in ActionApiUrls :
          nodes' = [nodes EXCEPT ![i] = CheckAction(nodes[i], mapped)]
    /\ UNCHANGED <<registry, loop, observers, Options>>

\* resolveTwitterShortenedUrl or the actions.json fetch rejects: the call
\* rejects and .catch(noop) takes it
AwaitRejects(i) ==
    /\ nodes[i].pc \in {"resolveUrl", "actionsJson"}
    /\ nodes' = [nodes EXCEPT ![i] = [@ EXCEPT !.pc = "rejected"]]
    /\ UNCHANGED <<registry, loop, observers, Options>>

\* await Action.fetch(actionApiUrl, config).catch(() => null) settles
ActionFetchSettles(i) ==
    /\ nodes[i].pc = "fetch"
    /\ \E action \in {Null, "action"} :
          nodes' = [nodes EXCEPT ![i] =
                       IF action = Null
                         THEN [@ EXCEPT !.action = action, !.pc = "returned"]
                         ELSE [@ EXCEPT !.action = action, !.pc = "rendered",
                                        !.rendered = TRUE]]
    /\ UNCHANGED <<registry, loop, observers, Options>>

NextObserver ==
    \/ InitSettles
    \/ Reschedule
    \/ InstallObserver
    \/ TimerFires
    \/ handleNewNode
    \/ \E i \in DOMAIN nodes : ResolveUrlResolves(i)
    \/ \E i \in DOMAIN nodes : ActionsJsonResolves(i)
    \/ \E i \in DOMAIN nodes : AwaitRejects(i)
    \/ \E i \in DOMAIN nodes : ActionFetchSettles(i)

SpecObserver == InitObserver /\ [][NextObserver]_vars

\* the refresh loop alone
NextRefresh ==
    \/ InitSettles
    \/ Reschedule
    \/ InstallObserver
    \/ TimerFires

\* init() settles, a continuation that is ready runs, a timer that is set fires
SpecRefresh ==
    /\ InitObserver
    /\ [][NextRefresh]_vars
    /\ WF_vars(InitSettles)
    /\ WF_vars(Reschedule)
    /\ WF_vars(InstallObserver)
    /\ WF_vars(TimerFires)

----------------------------------------------------------------------------
(* What the properties below speak of *)

\* admission as the specification states it: the action level is admitted
\* by the actions policy and the origin, when there is one, by the policy
\* of its domain
Admitted(state, nsl) ==
    /\ checkSecurity(state.action, nsl["actions"])
    /\ (state.origin = Undefined
          \/ checkSecurity(state.origin, nsl[state.originType]))

\* merge(action, origin?) of a classification
Overall(state) == mergeActionStates(SelectSeq(<<state.action, state.origin>>, Boolean))

\* the classification the registry gives at this moment
Fresh == getOverallActionState(registry, originKind)

\* the steps, told by what they change
MountStep == ~mounted /\ mounted'
ExecuteStep == executes' = executes + 1
UnblockStep ==
    mounted /\ executes' = executes
    /\ executionState.status = "blocked" /\ executionState'.status = "idle"

\* the call of execute() that an ExecuteStep has started
NewestRun == runs[Len(runs)]

Cleared(v) == v \in {Undefined, Null}

----------------------------------------------------------------------------
(* C1 .. C10 *)

\* C1: for every action level, optional origin level and normalized policy,
\* checkSecurityFromActionState is true exactly when the action level is
\* admitted by policy.actions and the origin is absent or admitted by the
\* policy of its domain. Stated of the classification a created container
\* holds, which takes every level, origin and policy.
C1_CheckIsActionAndOrigin ==
    mounted =>
        checkSecurityFromActionState(actionState, securityLevel)
            = Admitted(actionState, securityLevel)

\* C2: a created container starts blocked if the merged level is malicious
\* or the admission evaluation is false, and idle in every other case.
C2_InitialStatus ==
    [][MountStep =>
         executionState'.status =
           IF Overall(actionState') = "malicious"
              \/ ~Admitted(actionState', securityLevel)
           THEN "blocked" ELSE "idle"]_vars

\* C3: execute() called in idle with a fresh classification that differs
\* from the stored one and is not admitted moves to blocked, stores the
\* fresh classification, leaves executingAction empty and calls no
\* protocol step.
C3_ChangedAndNotAdmittedBlocks ==
    [][(/\ ExecuteStep
        /\ executionState.status = "idle"
        /\ (Fresh.action # actionState.action \/ Fresh.origin # actionState.origin)
        /\ ~Admitted(Fresh, securityLevel))
       => (/\ executionState'.status = "blocked"
           /\ actionState' = Fresh
           /\ Cleared(executionState'.executingAction)
           /\ NewestRun'.calls = <<>>)]_vars

\* C4: the override is offered only in blocked and only when the policy
\* admits the current classification; while the policy does not admit the
\* action level or the origin level, blocked stays blocked.
C4_OverrideOnlyWhenPolicyAdmits ==
    [][/\ OverrideOffered =>
            executionState.status = "blocked" /\ Admitted(actionState, securityLevel)
       /\ (/\ mounted
           /\ executionState.status = "blocked"
           /\ ~Admitted(actionState, securityLevel)
           /\ ~Admitted(actionState', securityLevel))
          => executionState'.status = "blocked"]_vars

\* the components whose button shows as loading
Loading == {c \in Components : asButtonProps(c).loading}

Blocks(c) ==
    /\ (c.action # actionState.action \/ c.origin # actionState.origin)
    /\ ~checkSecurityFromActionState(c, securityLevel)

\* C6 as stated: the first status, execute's INITIATE or BLOCK and the
\* override UNBLOCK are each decided on the classification the registry
\* gives at that moment.
C6_EveryDecisionOnFreshData ==
    [][/\ MountStep =>
            /\ actionState' = Fresh
            /\ executionState' =
                  InitialExecutionState(Overall(Fresh),
                      checkSecurityFromActionState(Fresh, securityLevel))
       /\ ExecuteStep =>
            /\ executionState'.status = IF Blocks(Fresh) THEN "blocked" ELSE "executing"
            /\ Blocks(Fresh) => actionState' = Fresh
       /\ UnblockStep =>
            /\ Overall(Fresh) = "malicious"
            /\ checkSecurityFromActionState(Fresh, securityLevel)]_vars

\* C6 amended: the first status and execute's INITIATE or BLOCK are decided
\* on the classification the registry gives at that moment; the override
\* UNBLOCK is decided on the classification the container holds, fetched
\* at its creation or at the last BLOCK.
C6_MountAndExecuteOnFreshData ==
    [][/\ MountStep =>
            /\ actionState' = Fresh
            /\ executionState' =
                  InitialExecutionState(Overall(Fresh),
                      checkSecurityFromActionState(Fresh, securityLevel))
       /\ ExecuteStep =>
            /\ executionState'.status = IF Blocks(Fresh) THEN "blocked" ELSE "executing"
            /\ Blocks(Fresh) => actionState' = Fresh
       /\ UnblockStep =>
            /\ Overall(actionState) = "malicious"
            /\ checkSecurityFromActionState(actionState, securityLevel)]_vars

\* execute() has blocked on a classification that the registry gave after
\* the container was created
C6_Witness ==
    /\ mounted /\ executes = 2
    /\ NewestRun.dispatched = <<"BLOCK">>
    /\ executionState.status = "blocked"
    /\ actionState = Fresh

\* C7: at most one call of execute() of the container is in flight.
C7_OneExecuteInFlight == Cardinality(InFlight) <= 1

\* a second call is in flight after the first has ended
C7_Witness ==
    /\ executes = 2
    /\ Cardinality(InFlight) = 1
    /\ executionState.status = "executing"

\* connect gave no account, or signTransaction gave a falsy or an error
\* result, and nothing was thrown
Declined(run) ==
    /\ run.thrown = <<>>
    /\ \/ run.account = Null
       \/ run.signResult = "falsy"
       \/ isSignTransactionError(run.signResult)

\* C8: when connect gives no account or signTransaction gives a falsy or
\* an error result, the call ends in idle with executingAction,
\* errorMessage and successMessage empty and without confirmTransaction.
C8_DeclineReturnsToIdle ==
    [][\A i \in InFlight :
         (executes' = executes /\ ~IsInFlight(runs'[i]) /\ Declined(runs'[i]))
         => (/\ executionState'.status = "idle"
             /\ Cleared(executionState'.executingAction)
             /\ Cleared(executionState'.errorMessage)
             /\ Cleared(executionState'.successMessage)
             /\ "confirmTransaction" \notin Range(runs'[i].calls))]_vars

C8_Witness ==
    /\ executionState.status = "idle"
    /\ \E i \in DOMAIN runs :
          /\ runs[i].pc = "returned"
          /\ isSignTransactionError(runs[i].signResult)
          /\ runs[i].thrown = <<>>

\* the message of a thrown value, or the fallback
MessageOr(e, fallback) == IF Cleared(e.message) THEN fallback ELSE e.message

\* C9: when a protocol step throws, the status is error, errorMessage is
\* the thrown message, or 'Unknown error' when the thrown value has none,
\* and successMessage is empty.
C9_ThrowReachesError ==
    \A i \in DOMAIN runs :
        runs[i].thrown # <<>> =>
            /\ executionState.status = "error"
            /\ executionState.errorMessage = MessageOr(runs[i].thrown[1], "Unknown error")
            /\ Cleared(executionState.successMessage)

\* connect, post, signTransaction and confirmTransaction have all succeeded
AllSucceeded(run) ==
    /\ run.pc = "returned"
    /\ run.thrown = <<>>
    /\ run.calls = <<"connect", "post", "signTransaction", "confirmTransaction">>

\* the same message, null and undefined both being no message
SameMessage(a, b) == a = b \/ (Cleared(a) /\ Cleared(b))

\* C10 as stated: when all steps succeed the status is success,
\* successMessage is the message the confirmation step returned and
\* errorMessage is empty.
C10_SuccessShowsConfirmMessage ==
    \A i \in DOMAIN runs :
        AllSucceeded(runs[i]) =>
            /\ executionState.status = "success"
            /\ SameMessage(executionState.successMessage, runs[i].confirmResult)
            /\ Cleared(executionState.errorMessage)

\* C10 amended: when all steps succeed the status is success,
\* successMessage is the message component.post returned with the
\* transaction and errorMessage is empty.
C10_SuccessShowsPostMessage ==
    \A i \in DOMAIN runs :
        AllSucceeded(runs[i]) =>
            /\ executionState.status = "success"
            /\ executionState.successMessage = runs[i].txMessage
            /\ Cleared(executionState.errorMessage)

C10_Witness ==
    /\ executionState.status = "success"
    /\ executionState.successMessage = "Swap complete"
    /\ \E i \in DOMAIN runs :
          AllSucceeded(runs[i]) /\ runs[i].confirmResult = "Confirmed"

----------------------------------------------------------------------------
(* C11 .. C20 *)

\* C11: a refresh of the registry changes neither the status, the
\* executingAction nor the stored classification of a controller, executing
\* or not; the stored classification follows the registry only in a call
\* of execute().
C11_RefreshLeavesControllerAlone ==
    [][/\ registry' # registry =>
            /\ executionState' = executionState
            /\ actionState' = actionState
            /\ runs' = runs
       /\ (mounted /\ actionState' # actionState) => ExecuteStep]_vars

\* the registry was refreshed while a call is in flight: the controller
\* still holds the classification it had
C11_Witness ==
    /\ mounted
    /\ executionState.status = "executing"
    /\ InFlight # {}
    /\ actionState.action = "trusted"
    /\ Fresh.action = "malicious"

\* the overall level as the order malicious > unknown > trusted gives it
ExpectedOverall(a, o) ==
    IF o = Undefined THEN a
    ELSE IF "malicious" \in {a, o} THEN "malicious"
    ELSE IF "unknown" \in {a, o} THEN "unknown"
    ELSE "trusted"

\* C15: the container's overall state is the action level when there is no
\* origin and else the more restrictive of the action and origin levels;
\* merge is commutative and idempotent and never less restrictive than
\* either of its inputs.
C15_OverallIsMostRestrictive ==
    /\ mounted =>
          overallState = ExpectedOverall(actionState.action, actionState.origin)
    /\ \A a \in Levels, b \in Levels :
          /\ mergeActionStates(<<a, b>>) = mergeActionStates(<<b, a>>)
          /\ mergeActionStates(<<a, a>>) = a
          /\ Restrictiveness(mergeActionStates(<<a, b>>)) >= Restrictiveness(a)
          /\ Restrictiveness(mergeActionStates(<<a, b>>)) >= Restrictiveness(b)

C15_Witness ==
    /\ mounted
    /\ actionState.action = "trusted"
    /\ actionState.origin = "malicious"
    /\ overallState = "malicious"

\* the protocol steps in the order execute() calls them
ProtocolOrder == <<"connect", "post", "signTransaction", "confirmTransaction">>

IsPrefix(s, t) == Len(s) <= Len(t) /\ s = SubSeq(t, 1, Len(s))

\* C16: a call of execute() calls connect, post, signTransaction and
\* confirmTransaction in this order, each at most once: post after connect
\* gave an account, signTransaction after post returned, confirmTransaction
\* after signTransaction gave a result that is no error, and FINISH is
\* dispatched after confirmTransaction returned.
C16_StepsInOrder ==
    \A i \in DOMAIN runs :
        /\ IsPrefix(runs[i].calls, ProtocolOrder)
        /\ "post" \in Range(runs[i].calls) => runs[i].account = "account"
        /\ "signTransaction" \in Range(runs[i].calls) => runs[i].txMessage \in TxMessages
        /\ "confirmTransaction" \in Range(runs[i].calls) =>
              runs[i].signResult = "signature"
        /\ "FINISH" \in Range(runs[i].dispatched) =>
              /\ runs[i].calls = ProtocolOrder
              /\ runs[i].pc = "returned"
              /\ runs[i].thrown = <<>>

C16_Witness ==
    \E i \in DOMAIN runs :
        /\ runs[i].calls = ProtocolOrder
        /\ runs[i].dispatched = <<"INITIATE", "FINISH">>
        /\ executionState.status = "success"

\* C17: execute() finding the classification changed and either failing
\* the security check or malicious blocks and calls no protocol step, also
\* under a policy that admits malicious.
C17_ChangedToMaliciousBlocks ==
    [][(/\ ExecuteStep
        /\ (Fresh.action # actionState.action \/ Fresh.origin # actionState.origin)
        /\ (\/ ~checkSecurityFromActionState(Fresh, securityLevel)
            \/ Overall(Fresh) = "malicious"))
       => (/\ executionState'.status = "blocked"
           /\ NewestRun'.calls = <<>>)]_vars

\* the label a button shows in each status
ExpectedText(c) ==
    CASE executionState.status = "executing" -> "Executing"
      [] executionState.status = "success" -> "Completed"
      [] executionState.status = "error" -> "Failed"
      [] executionState.status \in {"idle", "blocked"} -> Label(c)

\* C18: every button and input is disabled when the status is not idle or
\* the action is disabled, so a click reaches execute() in idle only; a
\* button is loading only in executing and for the executingAction; the
\* label is 'Executing', 'Completed' or 'Failed' in executing, success and
\* error and the component's own in idle and blocked.
C18_ButtonsFollowStatus ==
    mounted =>
        \A c \in Components :
            /\ asButtonProps(c).disabled
                  = (executionState.status # "idle" \/ disabled)
            /\ asInputProps(c).disabled
                  = (executionState.status # "idle" \/ disabled)
            /\ CanClick(c) => executionState.status = "idle" /\ ~disabled
            /\ asButtonProps(c).loading =>
                  /\ executionState.status = "executing"
                  /\ executionState.executingAction = c
            /\ asButtonProps(c).text = ExpectedText(c)

C18_Witness ==
    /\ mounted
    /\ ~disabled
    /\ executionState.status = "error"
    /\ asButtonProps("c1").text = "Failed"
    /\ asButtonProps("c1").disabled
    /\ ~asButtonProps("c1").loading

\* C19: awaited steps always returning or throwing, a controller that
\* enters executing leaves it for idle, success or error: once no step of
\* a call is awaited any more, the status is not executing.
C19_EndedCallLeavesExecuting ==
    (mounted /\ InFlight = {}) => executionState.status # "executing"

\* C14: RESET applied to a state of any status, whatever its fields, gives
\* status idle with executingAction, errorMessage and successMessage
\* cleared.
C14_ResetClears ==
    (applied # <<>> /\ applied[1].action.type = "RESET") =>
        /\ executionState.status = "idle"
        /\ Cleared(executionState.executingAction)
        /\ Cleared(executionState.errorMessage)
        /\ Cleared(executionState.successMessage)

C14_Witness ==
    /\ applied # <<>>
    /\ applied[1].action.type = "RESET"
    /\ applied[1].state.status = "error"
    /\ applied[1].state.executingAction \in Components
    /\ applied[1].state.errorMessage \in ErrorMessages
    /\ executionState.status = "idle"

\* the origin and the action a call read were admitted by their policies
OriginAdmitted(node) ==
    /\ node.originState \in Levels
    /\ checkSecurity(node.originState, securityLevel[OriginSource(node.kind)])

ActionAdmitted(node) ==
    /\ node.state \in Levels
    /\ checkSecurity(node.state, securityLevel["actions"])

\* C12: handleNewNode renders only a link whose origin is admitted by the
\* policy of its domain, whose action endpoint exists and is admitted by
\* policy.actions and whose Action.fetch succeeded; a call that returned
\* or rejected rendered nothing; Action.fetch is called only with origin
\* and action admitted.
C12_RendersOnlyAdmitted ==
    \A i \in DOMAIN nodes :
        /\ nodes[i].rendered =>
              /\ OriginAdmitted(nodes[i])
              /\ nodes[i].actionApiUrl = "api"
              /\ ActionAdmitted(nodes[i])
              /\ nodes[i].action = "action"
        /\ nodes[i].pc \in {"returned", "rejected"} => ~nodes[i].rendered
        /\ nodes[i].fetchCalled =>
              OriginAdmitted(nodes[i]) /\ ActionAdmitted(nodes[i])

C12_Witness ==
    \E i \in DOMAIN nodes :
        /\ nodes[i].kind = "website"
        /\ nodes[i].rendered
        /\ nodes[i].originState = "trusted"
        /\ nodes[i].state = "unknown"
        /\ securityLevel["actions"] = "non-malicious"
        /\ loop.refreshes > 0

\* C13: after every refresh attempt, one that failed included, the next
\* refresh is scheduled and the timer that is set fires; the promise of
\* refreshRegistry never rejects.
C13_RefreshLoopGoesOn ==
    /\ [](~loop.rejected)
    /\ (loop.pc = "resumed") ~> (loop.pc = "scheduled")
    /\ (loop.pc = "scheduled" /\ loop.refreshes < MaxRefreshes) ~> (loop.pc = "init")

C13_Witness ==
    /\ loop.pc = "scheduled"
    /\ loop.outcome = "failed"
    /\ loop.refreshes = MaxRefreshes
    /\ ~loop.rejected

\* C20: a node is handled and an action rendered only after the first
\* init() has settled, and one MutationObserver is installed, after that
\* first init(), however many refreshes follow.
C20_ObserverOnceAfterInit ==
    /\ observers <= 1
    /\ observers = 1 => loop.inits >= 1
    /\ nodes # <<>> => (observers = 1 /\ loop.inits >= 1)
    /\ (loop.inits >= 1 /\ loop.then = "done") => observers = 1

C20_Witness ==
    /\ observers = 1
    /\ loop.inits = MaxRefreshes + 1
    /\ \E i \in DOMAIN nodes : nodes[i].rendered

\* C21: a blocked controller has no execute() call in flight, and it
\* leaves blocked only by the override button, to idle; no step of an
\* execute() call moves it.
C21_BlockedLeavesByOverride ==
    [][/\ (mounted /\ executionState.status = "blocked") => InFlight = {}
       /\ (mounted /\ executionState.status = "blocked"
              /\ executionState'.status # "blocked")
            => (/\ OverrideOffered
                /\ executionState' = StatusOnly("idle")
                /\ runs' = runs
                /\ executes' = executes)]_vars

C21_Witness ==
    /\ mounted
    /\ executionState.status = "idle"
    /\ overallState = "malicious"
    /\ securityLevel["actions"] = "all"
    /\ runs = <<>>

\* a field that holds a value
IsSet(v) == ~Cleared(v)

\* C22: in every state the reducer reaches, executingAction is set exactly
\* in executing, success and error, errorMessage is set in error only and
\* successMessage in success only, never both, and in idle and blocked
\* the three fields are empty.
C22_FieldsFollowStatus ==
    mounted =>
        /\ executionState.status \in Statuses
        /\ IsSet(executionState.executingAction)
              <=> executionState.status \in {"executing", "success", "error"}
        /\ IsSet(executionState.errorMessage) => executionState.status = "error"
        /\ IsSet(executionState.successMessage) => executionState.status = "success"
        /\ ~(IsSet(executionState.errorMessage) /\ IsSet(executionState.successMessage))
        /\ executionState.status \in {"idle", "blocked"} =>
              /\ Cleared(executionState.executingAction)
              /\ Cleared(executionState.errorMessage)
              /\ Cleared(executionState.successMessage)

C22_Witness ==
    /\ mounted
    /\ executionState.status = "error"
    /\ executionState.executingAction \in Components
    /\ executionState.errorMessage \in ErrorMessages
    /\ executionState.successMessage = Null

====
